---- MODULE Spec2Model ----
(***************************************************************************)
(* The two map scripts of the repository, iht_constituencies.py and        *)
(* income_constituencies.py, as one state machine.  A run is one execution *)
(* of one script, statement group by statement group, over a geometry file *)
(* and a statistics spreadsheet chosen in Init.                            *)
(*                                                                         *)
(* Representation.                                                         *)
(*   - A string is a sequence of one-character strings.  The pound sign    *)
(*     and the A-circumflex that precedes it in income_constituencies.py   *)
(*     are the one-character tokens POUND and ACIRC.                       *)
(*   - A float cell is <<>> when it is NaN / None and <<v>> when present,  *)
(*     v being the value in thousandths (12.7 is 12700), so that           *)
(*     truncation by int() and the square root are visible.                *)
(*   - A table (DataFrame) is a sequence of row records.                   *)
(***************************************************************************)
EXTENDS Integers, Sequences, FiniteSets

VARIABLES
    script,        \* "iht" or "income": which of the two scripts runs
    geoFile,       \* constituencies.geojson: the PCON22NM of each feature, in file order
    xlsFile,       \* the spreadsheet: rows [name, v], v a function column -> cell
    pc,            \* the statement group about to run
    x,             \* index into datasets of the loop iteration (0 before the loop)
    logo_jpg,      \* TRUE once Image.open has returned
    gdf,           \* the GeoDataFrame: rows [PCON22NM, geometry]
    merged,        \* gdf joined with its own (name, id) table
    iht_df,        \* the statistics DataFrame
    merged_iht,    \* the outer-joined table
    hovertext,     \* column merged_iht['hovertext'] (<<>> while the column is absent)
    sqrt_amount,   \* column merged_iht['sqrt_amount'] (iht script only)
    stdout,        \* what print() has written: one record per reconciliation summary
    shown,         \* the arguments of every Choroplethmapbox handed to fig.show()
    raised         \* "none", or the statement group in which an exception ended the run

vars == <<script, geoFile, xlsFile, pc, x, logo_jpg, gdf, merged, iht_df, merged_iht,
          hovertext, sqrt_amount, stdout, shown, raised>>

----------------------------------------------------------------------------
(* Bounds of the model *)

\* longest geometry file and longest spreadsheet of the exhaustive part of Init
MaxGeo == 2
MaxStat == 2

----------------------------------------------------------------------------
(* Strings *)

POUND == "GBP"
ACIRC == "A^"
SPACE == " "

BR == <<"<", "b", "r", ">">>
NO_DATA == <<":", " ", "n", "o", " ", "d", "a", "t", "a">>
M_IHT == <<"m", " ", "I", "H", "T", " ", "(">>
ESTATES == <<" ", "e", "s", "t", "a", "t", "e", "s", ")">>
MISSING_DATA == <<"[", "m", "i", "s", "s", "i", "n", "g", " ", "d", "a", "t", "a", "]">>
HEADER == <<" ", " ", " ", " ", " ", " ", " ", " ", " ", " ", " ", " ", " ", " ", " ",
            " ", " ", " ", " ", "M", "e", "a", "n", " ", " ", " ", " ", " ",
            "M", "e", "d", "i", "a", "n">> \o BR
ALL_INCOME == <<"A", "l", "l", " ", "i", "n", "c", "o", "m", "e", ":",
                " ", " ", " ", " ", " ", " ">>
ALL_INCOME_TAX == <<"A", "l", "l", " ", "i", "n", "c", "o", "m", "e", " ",
                    "t", "a", "x", ":", " ", " ">>
SELF_EMP_INCOME == <<"S", "e", "l", "f", "-", "e", "m", "p", " ",
                     "i", "n", "c", "o", "m", "e", ":", " ">>
EMP_INCOME == <<"E", "m", "p", " ", "i", "n", "c", "o", "m", "e", ":",
                " ", " ", " ", " ", " ", " ">>

\* str(d) of one decimal digit
Digit(d) == <<"0", "1", "2", "3", "4", "5", "6", "7", "8", "9">>[d + 1]

\* str(n) of a non-negative int
RECURSIVE IntToStr(_)
IntToStr(n) == IF n < 10 THEN <<Digit(n)>>
               ELSE IntToStr(n \div 10) \o <<Digit(n % 10)>>

\* the three digits of a group that follows a thousands separator
Group3(n) == <<Digit(n \div 100), Digit((n \div 10) % 10), Digit(n % 10)>>

\* f'{n:,}' of a non-negative int
RECURSIVE FormatThousands(_)
FormatThousands(n) == IF n < 1000 THEN IntToStr(n)
                      ELSE FormatThousands(n \div 1000) \o <<",">> \o Group3(n % 1000)

\* ' ' * k, the empty string when k <= 0
Spaces(k) == [j \in 1..k |-> SPACE]

\* Series.str.replace('&', 'and')
RECURSIVE str_replace(_)
str_replace(s) == IF s = <<>> THEN <<>>
                  ELSE (IF Head(s) = "&" THEN <<"a", "n", "d">> ELSE <<Head(s)>>)
                       \o str_replace(Tail(s))

----------------------------------------------------------------------------
(* Float cells *)

NaN == <<>>
isnull(c) == c = NaN
notna(c) == c # NaN

\* the float whole + milli/1000
Dec(whole, milli) == <<whole * 1000 + milli>>

\* int(x), Series.astype(int): truncation of a present non-negative float
AsInt(c) == c[1] \div 1000

\* floor of the square root of a natural, by bisection on [lo, hi]
RECURSIVE Bisect(_, _, _)
Bisect(n, lo, hi) == IF lo = hi THEN lo
                     ELSE LET mid == (lo + hi + 1) \div 2
                          IN  IF mid * mid <= n THEN Bisect(n, mid, hi)
                              ELSE Bisect(n, lo, mid - 1)

\* np.sqrt of a present non-negative float, to the thousandth below
np_sqrt(c) == <<Bisect(c[1] * 1000, 0, 46340)>>

----------------------------------------------------------------------------
(* Configuration of the two scripts *)

IhtColumns == {"Amount (GBP million)", "Number"}

\* hovertext_fields of create_hovertext: the numeric columns of the income spreadsheet
hovertext_fields == {"Total tax: Median", "Self-employment income: Median",
                     "Employment income: Median", "Total tax: Mean",
                     "Self-employment income: Mean", "Employment income: Mean",
                     "Total income: Mean", "Total income: Median"}

Columns(s) == IF s = "iht" THEN IhtColumns ELSE hovertext_fields

datasets(s) ==
    IF s = "iht"
    THEN << [data_column |-> "Amount (GBP million)", title |-> "Inheritance tax GBP paid"],
            [data_column |-> "Number", title |-> "Number of inheritance tax estates"] >>
    ELSE << [data_column |-> "Total income: Median", title |-> "Median income"],
            [data_column |-> "Total income: Mean", title |-> "Mean income"] >>

MAX_LEN == 8

----------------------------------------------------------------------------
(* Input files *)

NameAmp == <<"F", " ", "&", " ", "S">>
NameAnd == <<"F", " ", "a", "n", "d", " ", "S">>
NameA == <<"A">>
NameB == <<"B">>
NameC == <<"C">>
NameD == <<"D">>

\* the names of the exhaustively enumerated files
FileNames == {NameAmp, NameAnd}

\* rows of iht_by_constituency.xlsx: amount and number of estates
IhtProfiles ==
    { [c \in IhtColumns |-> IF c = "Number" THEN Dec(7, 0) ELSE Dec(12, 0)],
      [c \in IhtColumns |-> IF c = "Number" THEN Dec(9, 0) ELSE Dec(12, 700)],
      [c \in IhtColumns |-> IF c = "Number" THEN Dec(6, 0) ELSE Dec(0, 0)],
      [c \in IhtColumns |-> IF c = "Number" THEN NaN ELSE Dec(4, 0)],
      [c \in IhtColumns |-> IF c = "Number" THEN Dec(7, 0) ELSE NaN],
      [c \in IhtColumns |-> NaN] }

\* rows of income_by_constituency.xlsx
IncomeProfiles ==
    { [c \in hovertext_fields |->
          IF c = "Total income: Mean" THEN Dec(25000, 700)
          ELSE IF c = "Total income: Median" THEN Dec(4490, 0) ELSE Dec(999, 0)],
      [c \in hovertext_fields |->
          IF c = "Total income: Mean" THEN Dec(150000, 0)
          ELSE IF c = "Total income: Median" THEN Dec(0, 0) ELSE Dec(99999, 0)],
      [c \in hovertext_fields |->
          IF c = "Total income: Mean" THEN NaN ELSE Dec(21000, 0)],
      [c \in hovertext_fields |-> NaN] }

Profiles(s) == IF s = "iht" THEN IhtProfiles ELSE IncomeProfiles

SeqsUpTo(S, n) == UNION {[1..k -> S] : k \in 0..n}

XlsRows(s) == [Parliamentary_Constituency : FileNames, v : Profiles(s)]

\* a spreadsheet with one fully populated row per name
FullSheet(s, names) ==
    [k \in 1..Len(names) |->
        [Parliamentary_Constituency |-> names[k],
         v |-> [c \in Columns(s) |-> IF s = "iht" THEN Dec(5 + k, 0) ELSE Dec(20000 + k, 0)]]]

\* the files a run may find: every geometry file of at most MaxGeo features and every
\* spreadsheet of at most MaxStat rows over FileNames, and the files of the
\* round-trip example, geometry {A, B, C} with statistics {B, C, D}
Inputs(s) ==
    (SeqsUpTo(FileNames, MaxGeo) \X SeqsUpTo(XlsRows(s), MaxStat))
    \cup { << <<NameA, NameB, NameC>>, FullSheet(s, <<NameB, NameC, NameD>>) >> }

----------------------------------------------------------------------------
(* DataFrame operations *)

None == <<>>

RECURSIVE Flatten(_)
Flatten(ss) == IF ss = <<>> THEN <<>> ELSE Head(ss) \o Flatten(Tail(ss))

\* the rows of a table whose key column holds name, in table order
Matches(table, name) == SelectSeq(table, LAMBDA r : r.PCON22NM = name)

\* gpd.read_file: one row per feature; the polygon of the feature at zero-based
\* position k is <<k>> (to_crs reprojects it and leaves the rows as they are)
read_file(file) == [k \in 1..Len(file) |-> [PCON22NM |-> file[k], geometry |-> <<k - 1>>]]

\* the (name, id) table with ids counted from 1
df_from_one(g) == [k \in 1..Len(g) |-> [PCON22NM |-> g[k].PCON22NM, id |-> k]]

\* pd.DataFrame({PCON22NM: gdf[PCON22NM], 'id': gdf.index})
df(g) == [k \in 1..Len(g) |-> [PCON22NM |-> g[k].PCON22NM, id |-> k - 1]]

\* gdf.merge(df, on=PCON22NM): the inner join, one row per pair of equal names
gdf_merge(g) ==
    Flatten([i \in 1..Len(g) |->
        LET m == Matches(df(g), g[i].PCON22NM)
        IN  [k \in 1..Len(m) |->
                [PCON22NM |-> g[i].PCON22NM, geometry |-> g[i].geometry,
                 id |-> <<m[k].id>>]]])

\* pd.read_excel and the rename, the key column left as the spreadsheet spells it
read_excel_as_spelt(s, file) ==
    [k \in 1..Len(file) |->
        [PCON22NM |-> file[k].Parliamentary_Constituency, v |-> file[k].v]]

\* pd.read_excel on the spreadsheet, then the script's treatment of the key column:
\* income_constituencies.py replaces '&' by 'and' in it and both rename it to PCON22NM
read_excel(s, file) ==
    [k \in 1..Len(file) |->
        [PCON22NM |-> IF s = "income"
                      THEN str_replace(file[k].Parliamentary_Constituency)
                      ELSE file[k].Parliamentary_Constituency,
         v |-> file[k].v]]

\* the join with how='left': the rows of right that match no row of left are dropped
left_merge(left, right, cols) ==
    Flatten([i \in 1..Len(left) |->
        LET m == Matches(right, left[i].PCON22NM)
        IN  IF m = <<>>
            THEN << [PCON22NM |-> left[i].PCON22NM,
                     geometry |-> left[i].geometry, id |-> left[i].id,
                     v |-> [c \in cols |-> NaN], _merge |-> "left_only"] >>
            ELSE [k \in 1..Len(m) |->
                     [PCON22NM |-> left[i].PCON22NM,
                      geometry |-> left[i].geometry, id |-> left[i].id,
                      v |-> m[k].v, _merge |-> "both"]]])

\* left.merge(right, on=PCON22NM, how='outer', indicator=True): the rows of left,
\* each once per matching row of right or once with NaN statistics, then the rows of
\* right that match no row of left, with neither polygon nor id.  (pandas 2.2 and
\* later order the rows of an outer join by key instead; every column the scripts
\* derive and hand to the renderer is taken from this one table, row by row.)
outer_merge(left, right, cols) ==
    LET leftRows ==
            Flatten([i \in 1..Len(left) |->
                LET m == Matches(right, left[i].PCON22NM)
                IN  IF m = <<>>
                    THEN << [PCON22NM |-> left[i].PCON22NM,
                             geometry |-> left[i].geometry, id |-> left[i].id,
                             v |-> [c \in cols |-> NaN], _merge |-> "left_only"] >>
                    ELSE [k \in 1..Len(m) |->
                             [PCON22NM |-> left[i].PCON22NM,
                              geometry |-> left[i].geometry, id |-> left[i].id,
                              v |-> m[k].v, _merge |-> "both"]]])
        rightOnly == SelectSeq(right, LAMBDA r : Matches(left, r.PCON22NM) = <<>>)
    IN  leftRows \o
        [k \in 1..Len(rightOnly) |->
            [PCON22NM |-> rightOnly[k].PCON22NM, geometry |-> None, id |-> NaN,
             v |-> rightOnly[k].v, _merge |-> "right_only"]]

----------------------------------------------------------------------------
(* Reconciliation summary, lines 55-64 of iht_constituencies.py and 97-106 of
   income_constituencies.py *)

\* a printed count: the _merge values it counts and the number printed
CountLine(label, of, n) == [kind |-> "count", print |-> label, of |-> of, n |-> n]

\* a printed Series of names: the _merge value it selects and the names
SeriesLine(label, of, names) == [kind |-> "series", print |-> label, of |-> of, names |-> names]

\* the summary with the statistic-only records alone counted as unmatched
SummaryCountsRightOnly(table) ==
    LET matched == SelectSeq(table, LAMBDA r : r._merge = "both")
        unmatched == SelectSeq(table, LAMBDA r : r._merge = "right_only")
    IN  << CountLine("Number of matched constituencies", {"both"}, Len(matched)),
           CountLine("Number of unmatched constituencies",
                     {"left_only", "right_only"}, Len(unmatched)) >>
        \o (IF Len(unmatched) > 0
            THEN << SeriesLine("Unmatched constituencies from the excel file",
                               {"right_only"},
                               [k \in 1..Len(unmatched) |-> unmatched[k].PCON22NM]) >>
            ELSE <<>>)

Summary(table) ==
    LET matched == SelectSeq(table, LAMBDA r : r._merge = "both")
        unmatched == SelectSeq(table, LAMBDA r : r._merge # "both")
        right_only == SelectSeq(unmatched, LAMBDA r : r._merge = "right_only")
    IN  << CountLine("Number of matched constituencies", {"both"}, Len(matched)),
           CountLine("Number of unmatched constituencies",
                     {"left_only", "right_only"}, Len(unmatched)) >>
        \o (IF Len(unmatched) > 0
            THEN << SeriesLine("Unmatched constituencies from the excel file",
                               {"right_only"},
                               [k \in 1..Len(right_only) |-> right_only[k].PCON22NM]) >>
            ELSE <<>>)

----------------------------------------------------------------------------
(* Hover text and colour value *)

\* iht_constituencies.py line 67, for the column being coloured
no_data_mask(row, col) == isnull(row.v["Number"]) \/ isnull(row.v[col])

\* line 68: PCON22NM + ': no data'
NoDataText(row) == row.PCON22NM \o NO_DATA

\* line 72: both astype(int) raise on a column that holds a NaN in a selected row
CastRaises(table, col) ==
    \E k \in 1..Len(table) :
        /\ ~no_data_mask(table[k], col)
        /\ isnull(table[k].v["Amount (GBP million)"])

\* line 72: PCON22NM + '<br>' + pound + int(Amount) + 'm IHT (' + int(Number) + ' estates)'
DataText(row) ==
    row.PCON22NM \o BR \o <<POUND>> \o IntToStr(AsInt(row.v["Amount (GBP million)"]))
    \o M_IHT \o IntToStr(AsInt(row.v["Number"])) \o ESTATES

\* line 75 with 0 for the missing values
SqrtAmountZeroFill(row, col) == IF isnull(row.v[col]) THEN Dec(0, 0) ELSE np_sqrt(row.v[col])

\* line 75 without the square root
SqrtAmountNoSqrt(row, col) == IF isnull(row.v[col]) THEN Dec(-1, 0) ELSE row.v[col]

\* line 75: np.where(isnull, -1, np.sqrt(column))
SqrtAmount(row, col) == IF isnull(row.v[col]) THEN Dec(-1, 0) ELSE np_sqrt(row.v[col])

\* income_constituencies.py, format_or_replace_na, for one cell
format_or_replace_na(c) ==
    IF notna(c) THEN <<ACIRC, POUND>> \o FormatThousands(AsInt(c)) ELSE MISSING_DATA

\* pad_string without the padding
pad_string_unpadded(s, total_length) == s

\* pad_string
pad_string(s, total_length) == s \o Spaces(total_length - Len(s))

\* one cell of hovertext_data, padded as lines 56-63 pad it
Padded(row, field) == pad_string(format_or_replace_na(row.v[field]), MAX_LEN)

\* create_hovertext, for one row
create_hovertext(row) ==
    row.PCON22NM \o BR \o HEADER
    \o ALL_INCOME \o Padded(row, "Total income: Mean")
    \o <<SPACE>> \o Padded(row, "Total income: Median") \o BR
    \o ALL_INCOME_TAX \o Padded(row, "Total tax: Mean")
    \o <<SPACE>> \o Padded(row, "Total tax: Median") \o BR
    \o SELF_EMP_INCOME \o Padded(row, "Self-employment income: Mean")
    \o <<SPACE>> \o Padded(row, "Self-employment income: Median") \o BR
    \o EMP_INCOME \o Padded(row, "Employment income: Mean")
    \o <<SPACE>> \o Padded(row, "Employment income: Median")

\* the z argument of Choroplethmapbox: the sqrt_amount column in iht_constituencies.py,
\* the data column itself in income_constituencies.py
ColourValues(s, table, sqrtcol, col) ==
    IF s = "iht" THEN sqrtcol ELSE [k \in 1..Len(table) |-> table[k].v[col]]

\* the dtype of merged_iht.id: the int64 of gdf.index, and float64 once the outer join
\* has put a NaN in the column
id_dtype(table) ==
    IF \E k \in 1..Len(table) : isnull(table[k].id) THEN "float64" ELSE "int64"

\* go.Choroplethmapbox(geojson=..., locations=merged_iht.id, z=..., hovertext=...)
Choroplethmapbox(s, table, sqrtcol, hover, dataset) ==
    [geojson |-> [k \in 1..Len(table) |-> table[k].geometry],
     locations |-> [k \in 1..Len(table) |-> table[k].id],
     locations_dtype |-> id_dtype(table),
     z |-> ColourValues(s, table, sqrtcol, dataset.data_column),
     hovertext |-> hover,
     status |-> [k \in 1..Len(table) |-> table[k]._merge],
     title |-> dataset.title]

----------------------------------------------------------------------------
(* The run *)

Init ==
    /\ script \in {"iht", "income"}
    /\ \E files \in Inputs(script) : geoFile = files[1] /\ xlsFile = files[2]
    /\ pc = "logo"
    /\ x = 0
    /\ logo_jpg = FALSE
    /\ gdf = <<>>
    /\ merged = <<>>
    /\ iht_df = <<>>
    /\ merged_iht = <<>>
    /\ hovertext = <<>>
    /\ sqrt_amount = <<>>
    /\ stdout = <<>>
    /\ shown = <<>>
    /\ raised = "none"

\* Image.open(LOGO_PATH)
LoadLogo ==
    /\ pc = "logo"
    /\ logo_jpg' = TRUE
    /\ pc' = "geojson"
    /\ UNCHANGED <<script, geoFile, xlsFile, x, gdf, merged, iht_df, merged_iht,
                   hovertext, sqrt_amount, stdout, shown, raised>>

\* gpd.read_file and to_crs; iht_constituencies.py then enters its loop
LoadGeoJSON ==
    /\ pc = "geojson"
    /\ gdf' = read_file(geoFile)
    /\ IF script = "iht" THEN x' = 1 /\ pc' = "df" ELSE x' = x /\ pc' = "excel"
    /\ UNCHANGED <<script, geoFile, xlsFile, logo_jpg, merged, iht_df, merged_iht,
                   hovertext, sqrt_amount, stdout, shown, raised>>

\* df = pd.DataFrame(...); merged = gdf.merge(df, on=PCON22NM)
SelfMerge ==
    /\ pc = "df"
    /\ merged' = gdf_merge(gdf)
    /\ pc' = IF script = "iht" THEN "excel" ELSE "merge"
    /\ UNCHANGED <<script, geoFile, xlsFile, x, logo_jpg, gdf, iht_df, merged_iht,
                   hovertext, sqrt_amount, stdout, shown, raised>>

\* pd.read_excel, with the str.replace of income_constituencies.py and the rename
ReadExcel ==
    /\ pc = "excel"
    /\ iht_df' = read_excel(script, xlsFile)
    /\ pc' = IF script = "iht" THEN "merge" ELSE "df"
    /\ UNCHANGED <<script, geoFile, xlsFile, x, logo_jpg, gdf, merged, merged_iht,
                   hovertext, sqrt_amount, stdout, shown, raised>>

\* merged_iht = merged.merge(iht_df, on=PCON22NM, how='outer', indicator=True):
\* a new table, which has no hovertext and no sqrt_amount column yet
Merge ==
    /\ pc = "merge"
    /\ merged_iht' = outer_merge(merged, iht_df, Columns(script))
    /\ hovertext' = <<>>
    /\ sqrt_amount' = <<>>
    /\ pc' = "report"
    /\ UNCHANGED <<script, geoFile, xlsFile, x, logo_jpg, gdf, merged, iht_df,
                   stdout, shown, raised>>

\* the prints of the reconciliation summary
Report ==
    /\ pc = "report"
    /\ stdout' = Append(stdout, Summary(merged_iht))
    /\ pc' = "hover"
    /\ UNCHANGED <<script, geoFile, xlsFile, x, logo_jpg, gdf, merged, iht_df, merged_iht,
                   hovertext, sqrt_amount, shown, raised>>

\* iht_constituencies.py lines 66-72: line 68 creates the column and fills the masked
\* rows, line 72 fills the others or raises in astype(int)
IhtHovertext ==
    /\ pc = "hover"
    /\ script = "iht"
    /\ LET col == datasets(script)[x].data_column
           n == Len(merged_iht)
       IN  IF CastRaises(merged_iht, col)
           THEN /\ hovertext' = [k \in 1..n |->
                                    IF no_data_mask(merged_iht[k], col)
                                    THEN NoDataText(merged_iht[k]) ELSE NaN]
                /\ raised' = "hover"
                /\ pc' = "aborted"
           ELSE /\ hovertext' = [k \in 1..n |->
                                    IF no_data_mask(merged_iht[k], col)
                                    THEN NoDataText(merged_iht[k])
                                    ELSE DataText(merged_iht[k])]
                /\ raised' = raised
                /\ pc' = "sqrt"
    /\ UNCHANGED <<script, geoFile, xlsFile, x, logo_jpg, gdf, merged, iht_df, merged_iht,
                   sqrt_amount, stdout, shown>>

\* income_constituencies.py line 108, then the loop is entered
IncomeHovertext ==
    /\ pc = "hover"
    /\ script = "income"
    /\ hovertext' = [k \in 1..Len(merged_iht) |-> create_hovertext(merged_iht[k])]
    /\ x' = 1
    /\ pc' = "render"
    /\ UNCHANGED <<script, geoFile, xlsFile, logo_jpg, gdf, merged, iht_df, merged_iht,
                   sqrt_amount, stdout, shown, raised>>

\* iht_constituencies.py line 75
SqrtTransform ==
    /\ pc = "sqrt"
    /\ sqrt_amount' = [k \in 1..Len(merged_iht) |->
                          SqrtAmount(merged_iht[k], datasets(script)[x].data_column)]
    /\ pc' = "render"
    /\ UNCHANGED <<script, geoFile, xlsFile, x, logo_jpg, gdf, merged, iht_df, merged_iht,
                   hovertext, stdout, shown, raised>>

\* go.Figure(go.Choroplethmapbox(...)), update_layout, fig.show(), and the loop's
\* step to the next dataset
Render ==
    /\ pc = "render"
    /\ shown' = Append(shown, Choroplethmapbox(script, merged_iht, sqrt_amount,
                                               hovertext, datasets(script)[x]))
    /\ IF x < Len(datasets(script))
       THEN x' = x + 1 /\ pc' = IF script = "iht" THEN "df" ELSE "render"
       ELSE x' = x /\ pc' = "done"
    /\ UNCHANGED <<script, geoFile, xlsFile, logo_jpg, gdf, merged, iht_df, merged_iht,
                   hovertext, sqrt_amount, stdout, raised>>

\* where a load can raise: Image.open, gpd.read_file and pd.read_excel on a missing or
\* unreadable file; the first gdf[PCON22NM] on a geometry file without that column;
\* iht_df[CONST_COL_NAME] (inside the "excel" group of income_constituencies.py) and
\* the merge on PCON22NM of iht_constituencies.py on a spreadsheet without its key column
CanRaise(s, at, iteration) ==
    \/ at \in {"logo", "geojson", "excel"}
    \/ at = "df" /\ iteration <= 1
    \/ at = "merge" /\ s = "iht"

\* a load raises and the exception ends the run
LoadError ==
    /\ CanRaise(script, pc, x)
    /\ raised' = pc
    /\ pc' = "aborted"
    /\ UNCHANGED <<script, geoFile, xlsFile, x, logo_jpg, gdf, merged, iht_df, merged_iht,
                   hovertext, sqrt_amount, stdout, shown>>

Next ==
    \/ LoadLogo
    \/ LoadGeoJSON
    \/ SelfMerge
    \/ ReadExcel
    \/ Merge
    \/ Report
    \/ IhtHovertext
    \/ IncomeHovertext
    \/ SqrtTransform
    \/ Render
    \/ LoadError

Spec == Init /\ [][Next]_vars

----------------------------------------------------------------------------
(* Vocabulary of the properties *)

\* merged_iht holds the join of the files (each Merge is followed by its Report)
Joined == pc = "report" \/ stdout # <<>>

\* G and S: the names of the geometry table and of the statistics table as joined
G == {gdf[k].PCON22NM : k \in 1..Len(gdf)}
S == {iht_df[k].PCON22NM : k \in 1..Len(iht_df)}

\* how many rows of a table carry a name
Occurrences(table, name) == Len(Matches(table, name))

RowsOf(status) == {k \in 1..Len(merged_iht) : merged_iht[k]._merge = status}

\* each record's status says where its name comes from
StatusesRight ==
    \A k \in 1..Len(merged_iht) :
        LET r == merged_iht[k]
        IN  /\ r.PCON22NM \in G \cup S
            /\ r._merge = "both" <=> r.PCON22NM \in G \cap S
            /\ r._merge = "left_only" <=> r.PCON22NM \in G \ S
            /\ r._merge = "right_only" <=> r.PCON22NM \in S \ G

----------------------------------------------------------------------------
(* C1 *)

\* C1 as stated: the joined table holds exactly one record per distinct name of
\* G \cup S (as many records as names, no name twice), and each record's status is
\* 'both', geometry-only or statistic-only as its name is in both, in G only or in S only.
C1_OneRecordPerName ==
    Joined =>
        /\ Len(merged_iht) = Cardinality(G \cup S)
        /\ \A n \in G \cup S : Occurrences(merged_iht, n) = 1
        /\ StatusesRight

\* C1 as amended: every name of G \cup S has at least one record and every record's
\* status is as stated; a name carried by g geometry rows and s statistics rows has
\* g*g records when s = 0, s records when g = 0 and g*g*s records otherwise, so there
\* is exactly one record per name when no name is repeated within either table.
C1_JoinMultiplicity ==
    Joined =>
        /\ StatusesRight
        /\ \A n \in G \cup S :
              LET g == Occurrences(gdf, n)
                  s == Occurrences(iht_df, n)
              IN  Occurrences(merged_iht, n) =
                      (IF g = 0 THEN 1 ELSE g * g) * (IF s = 0 THEN 1 ELSE s)
        /\ ( (\A n \in G : Occurrences(gdf, n) = 1) /\ (\A n \in S : Occurrences(iht_df, n) = 1)
             => /\ Len(merged_iht) = Cardinality(G \cup S)
                /\ \A n \in G \cup S : Occurrences(merged_iht, n) = 1 )

\* a join in which all three statuses occur and every name has exactly one record
C1_Witness ==
    /\ Joined
    /\ RowsOf("both") # {} /\ RowsOf("left_only") # {} /\ RowsOf("right_only") # {}
    /\ Len(merged_iht) = Cardinality(G \cup S)
    /\ Cardinality(G \cup S) = 4

----------------------------------------------------------------------------
(* C2, C3: the colour value *)

\* the fixed sentinel -1
MinusOne == Dec(-1, 0)

\* the field of record k that figure i colours
Field(i, k) == merged_iht[k].v[datasets(script)[i].data_column]

\* z is the square root of the present cell c, to the thousandth below
IsSqrtOf(z, c) ==
    /\ notna(z) /\ z[1] >= 0
    /\ z[1] * z[1] <= c[1] * 1000
    /\ (z[1] + 1) * (z[1] + 1) > c[1] * 1000

\* z is the configured transform of the present cell c
IsTransformOf(z, c) == IF script = "iht" THEN IsSqrtOf(z, c) ELSE z = c

\* the examples: 4 -> 2.0 and 0 -> 0.0
SqrtExamples(z, c) ==
    /\ c = Dec(4, 0) => z = Dec(2, 0)
    /\ c = Dec(0, 0) => z = Dec(0, 0)

\* C2 as stated: in both scripts the z handed to the renderer is the sentinel -1
\* whenever the coloured field is null, and otherwise the configured transform of the
\* field, which is strictly greater than the sentinel.
C2_SentinelInBothScripts ==
    \A i \in 1..Len(shown) : \A k \in 1..Len(shown[i].z) :
        LET c == Field(i, k)
            z == shown[i].z[k]
        IN  /\ isnull(c) => z = MinusOne
            /\ notna(c) => IsTransformOf(z, c) /\ MinusOne[1] < z[1]

\* C2 as amended: in iht_constituencies.py z is the sentinel -1 whenever the coloured
\* field is null and otherwise its square root (4 -> 2.0, 0 -> 0.0), which is strictly
\* greater than the sentinel; in income_constituencies.py z is the field itself, and a
\* null field is handed to the renderer as null, not as -1.
C2_SentinelInIhtOnly ==
    \A i \in 1..Len(shown) : \A k \in 1..Len(shown[i].z) :
        LET c == Field(i, k)
            z == shown[i].z[k]
        IN  /\ Len(shown[i].z) = Len(merged_iht)
            /\ script = "iht" =>
                  /\ isnull(c) => z = MinusOne
                  /\ notna(c) => IsSqrtOf(z, c) /\ SqrtExamples(z, c) /\ MinusOne[1] < z[1]
            /\ script = "income" => z = c

\* an iht map with a missing value, a 4 and a 0 among the coloured fields
C2_Witness ==
    /\ script = "iht"
    /\ \E i \in 1..Len(shown) :
          /\ \E k \in 1..Len(shown[i].z) : isnull(Field(i, k)) /\ shown[i].z[k] = MinusOne
          /\ \E k \in 1..Len(shown[i].z) : Field(i, k) = Dec(4, 0) /\ shown[i].z[k] = Dec(2, 0)
          /\ \E k \in 1..Len(shown[i].z) : Field(i, k) = Dec(0, 0) /\ shown[i].z[k] = Dec(0, 0)

\* C3 as stated, of iht_constituencies.py (the script with the sentinel): for every
\* record with status 'both' and every configured statistic the display value is
\* non-negative and equals transform(value); no 'both' record receives the sentinel.
C3_BothNeverSentinel ==
    \A i \in 1..Len(shown) : \A k \in 1..Len(shown[i].z) :
        script = "iht" /\ shown[i].status[k] = "both" =>
            LET z == shown[i].z[k]
            IN  /\ notna(z) /\ z[1] >= 0
                /\ z # MinusOne
                /\ notna(Field(i, k)) /\ IsTransformOf(z, Field(i, k))

\* C3 as amended: for every record with status 'both' whose coloured field is present
\* the display value is non-negative and equals transform(value); a 'both' record
\* whose coloured field is null (a row of the spreadsheet with a blank cell) receives
\* the sentinel -1 in iht_constituencies.py and null in income_constituencies.py.
C3_BothWithValue ==
    \A i \in 1..Len(shown) : \A k \in 1..Len(shown[i].z) :
        shown[i].status[k] = "both" =>
            LET z == shown[i].z[k]
                c == Field(i, k)
            IN  /\ notna(c) => notna(z) /\ z[1] >= 0 /\ z # MinusOne /\ IsTransformOf(z, c)
                /\ isnull(c) => z = IF script = "iht" THEN MinusOne ELSE NaN

\* an iht map with a 'both' record that has a value and a 'both' record that has none
C3_Witness ==
    \E i \in 1..Len(shown) :
        /\ script = "iht"
        /\ \E k \in 1..Len(shown[i].z) :
              shown[i].status[k] = "both" /\ isnull(Field(i, k)) /\ shown[i].z[k] = MinusOne
        /\ \E k \in 1..Len(shown[i].z) :
              shown[i].status[k] = "both" /\ notna(Field(i, k)) /\ shown[i].z[k][1] > 0

----------------------------------------------------------------------------
(* C4, C5: missing values and the hover text of iht_constituencies.py *)

\* C4 as stated: a missing value is never surfaced as a failure; whatever fields are
\* null, every iteration completes hover-text formatting and value transformation
\* and reaches the render call.
C4_MissingValueNeverFails == raised \notin {"hover", "sqrt", "render"}

\* the hover text of the example: amount 12.0 and count 7
ExampleText(name) ==
    name \o <<"<", "b", "r", ">", POUND, "1", "2", "m", " ", "I", "H", "T", " ", "(",
              "7", " ", "e", "s", "t", "a", "t", "e", "s", ")">>

\* a hovertext column reads as claimed for the rows of merged_iht
HoverReadsAsClaimed(column) ==
    \A k \in 1..Len(column) :
        LET r == merged_iht[k]
            a == r.v["Amount (GBP million)"]
            n == r.v["Number"]
        IN  /\ notna(a) /\ notna(n) =>
                column[k] = r.PCON22NM \o BR \o <<POUND>> \o IntToStr(a[1] \div 1000)
                            \o M_IHT \o IntToStr(n[1] \div 1000) \o ESTATES
            /\ a = Dec(12, 0) /\ n = Dec(7, 0) => column[k] = ExampleText(r.PCON22NM)
            /\ isnull(a) => column[k] = r.PCON22NM \o NO_DATA

\* C5 as stated: in every iteration of the loop of iht_constituencies.py the hover
\* text of a record with a present amount a and count n reads
\* '<name><br>(pound)<a>m IHT (<n> estates)', a and n as integers, and the hover text
\* of every record with a null amount reads '<name>: no data', whichever statistic
\* is coloured: of the hovertext column whenever the table has one, and of every
\* column handed to the renderer.
C5_IhtHoverText ==
    script = "iht" =>
        /\ hovertext # <<>> => Len(hovertext) = Len(merged_iht) /\ HoverReadsAsClaimed(hovertext)
        /\ \A i \in 1..Len(shown) : HoverReadsAsClaimed(shown[i].hovertext)

----------------------------------------------------------------------------
(* C6: name normalization *)

FileHas(name) == \E k \in 1..Len(xlsFile) : xlsFile[k].Parliamentary_Constituency = name

\* iht_df holds the rows of the spreadsheet
Loaded == iht_df # <<>> /\ Len(iht_df) = Len(xlsFile)

HasRecord(name, status) ==
    \E k \in 1..Len(merged_iht) :
        merged_iht[k].PCON22NM = name /\ merged_iht[k]._merge = status

\* '&' is replaced by 'and' in the names of the statistics table, and a spreadsheet
\* 'F & S' joins a geometry 'F and S' as 'both'
NamesNormalized ==
    /\ Loaded =>
          \A k \in 1..Len(iht_df) :
              /\ \A j \in 1..Len(iht_df[k].PCON22NM) : iht_df[k].PCON22NM[j] # "&"
              /\ xlsFile[k].Parliamentary_Constituency = NameAmp
                     => iht_df[k].PCON22NM = NameAnd
    /\ Joined /\ FileHas(NameAmp) /\ NameAnd \in G =>
          /\ HasRecord(NameAnd, "both")
          /\ ~HasRecord(NameAmp, "right_only")
          /\ ~HasRecord(NameAnd, "left_only")

\* C6 as stated: in every pipeline the names of the statistics are normalized before
\* the join by replacing '&' with 'and'; 'F & S' becomes 'F and S' and, when the
\* geometry uses the latter spelling, the joined record has status 'both'.
C6_NormalizedInEveryPipeline == NamesNormalized

\* C6 as amended: income_constituencies.py normalizes the names as stated;
\* iht_constituencies.py does not: it joins the names as the spreadsheet spells them,
\* so that a spreadsheet 'F & S' is a statistic-only record when the geometry spells
\* it 'F and S', and that geometry is a geometry-only record unless the spreadsheet
\* has a row spelt 'F and S' too.
C6_NormalizedInIncomeOnly ==
    /\ script = "income" => NamesNormalized
    /\ script = "iht" =>
          /\ Loaded =>
                \A k \in 1..Len(iht_df) :
                    iht_df[k].PCON22NM = xlsFile[k].Parliamentary_Constituency
          /\ Joined /\ FileHas(NameAmp) /\ NameAnd \in G /\ NameAmp \notin G =>
                /\ HasRecord(NameAmp, "right_only")
                /\ ~FileHas(NameAnd) => HasRecord(NameAnd, "left_only")

\* the income script has joined a spreadsheet 'F & S' to a geometry 'F and S'
C6_Witness ==
    /\ script = "income"
    /\ Joined
    /\ FileHas(NameAmp) /\ ~FileHas(NameAnd)
    /\ NameAnd \in G
    /\ HasRecord(NameAnd, "both")

----------------------------------------------------------------------------
(* C7: the reconciliation summary *)

\* the summary printed last
LastSummary == stdout[Len(stdout)]

CountLines(summary) == {j \in 1..Len(summary) : summary[j].kind = "count"}
SeriesLines(summary) == {j \in 1..Len(summary) : summary[j].kind = "series"}

\* the names of the statistic-only records, in table order
RightOnlyNames ==
    LET rows == SelectSeq(merged_iht, LAMBDA r : r._merge = "right_only")
    IN  [k \in 1..Len(rows) |-> rows[k].PCON22NM]

\* the summary has a count of exactly the records whose status is in of
Counts(summary, of) ==
    \E j \in CountLines(summary) :
        /\ summary[j].of = of
        /\ summary[j].n = Cardinality(UNION {RowsOf(status) : status \in of})

\* the summary has a count that covers the records of one status and equals their number
ReportsCountOf(summary, status) ==
    \E j \in CountLines(summary) :
        /\ status \in summary[j].of
        /\ summary[j].n = Cardinality(RowsOf(status))

\* for geometry {A, B, C} and statistics {B, C, D}: matched = 2, unmatched = 2, 'D' listed
RoundTripExample(summary) ==
    /\ Len(gdf) = 3 /\ G = {NameA, NameB, NameC}
    /\ Len(iht_df) = 3 /\ S = {NameB, NameC, NameD}
    => /\ \E j \in CountLines(summary) : summary[j].of = {"both"} /\ summary[j].n = 2
       /\ \E j \in CountLines(summary) : "both" \notin summary[j].of /\ summary[j].n = 2
       /\ \E j \in SeriesLines(summary) : summary[j].names = <<NameD>>

----------------------------------------------------------------------------
(* C8: what the renderer is handed *)

\* the zero-based positions of the features of the geometry file that bear a name
PositionsOf(name) == {k - 1 : k \in {j \in 1..Len(geoFile) : geoFile[j] = name}}

\* entry k of a figure carries the polygon and the id of its constituency
CarriesGeometry(fig, k) ==
    /\ fig.geojson[k] # None
    /\ fig.geojson[k][1] \in PositionsOf(merged_iht[k].PCON22NM)
    /\ fig.locations[k] # NaN
    /\ fig.locations[k][1] \in PositionsOf(merged_iht[k].PCON22NM)
    /\ Cardinality(PositionsOf(merged_iht[k].PCON22NM)) = 1
           => fig.locations[k] = fig.geojson[k]

\* C8 as stated: every entry handed to the renderer carries a polygon and an integer
\* id equal to the zero-based position of its constituency in the geometry file;
\* statistic-only records are never passed to the render call.
C8_OnlyGeometryRendered ==
    \A i \in 1..Len(shown) :
        /\ shown[i].locations_dtype = "int64"
        /\ \A k \in 1..Len(shown[i].locations) :
              /\ shown[i].status[k] # "right_only"
              /\ CarriesGeometry(shown[i], k)

\* C8 as amended: every record of the joined table is handed to the renderer; an
\* entry with status 'both' or 'geometry-only' carries the polygon of a feature that
\* bears its name and an id that is the zero-based position of a feature that bears
\* its name (the position of its own polygon when the name occurs once in the
\* geometry file); a statistic-only record is passed to the render call too, with a
\* null polygon and a null id, and the ids are then floats and no longer integers.
C8_StatisticOnlyPassedWithoutGeometry ==
    \A i \in 1..Len(shown) :
        /\ Len(shown[i].locations) = Len(merged_iht)
        /\ Len(shown[i].geojson) = Len(merged_iht)
        /\ shown[i].locations_dtype =
               IF \E k \in 1..Len(shown[i].status) : shown[i].status[k] = "right_only"
               THEN "float64" ELSE "int64"
        /\ \A k \in 1..Len(shown[i].locations) :
              /\ shown[i].status[k] = merged_iht[k]._merge
              /\ shown[i].status[k] \in {"both", "left_only"} => CarriesGeometry(shown[i], k)
              /\ shown[i].status[k] = "right_only" =>
                    shown[i].geojson[k] = None /\ shown[i].locations[k] = NaN

\* a map whose entries include a matched record, at a position other than 0, and a
\* statistic-only record
C8_Witness ==
    \E i \in 1..Len(shown) :
        /\ \E k \in 1..Len(shown[i].locations) :
              /\ shown[i].status[k] = "both"
              /\ shown[i].locations[k] # NaN /\ shown[i].locations[k][1] > 0
        /\ \E k \in 1..Len(shown[i].locations) :
              shown[i].status[k] = "right_only" /\ shown[i].locations[k] = NaN

----------------------------------------------------------------------------
(* C9: load failures *)

\* C9 as stated: if any load fails then no map has been shown at the moment of the
\* failure; every load that can fail happens before the first render call.
C9_NoMapBeforeLoadFailure ==
    raised \in {"logo", "geojson", "df", "excel", "merge"} => shown = <<>>

----------------------------------------------------------------------------
(* C10: column alignment of the income hover text *)

\* the number of decimal digits of a natural below 10^9
NDigits(n) ==
    IF n < 10 THEN 1 ELSE IF n < 100 THEN 2 ELSE IF n < 1000 THEN 3
    ELSE IF n < 10000 THEN 4 ELSE IF n < 100000 THEN 5 ELSE IF n < 1000000 THEN 6
    ELSE IF n < 10000000 THEN 7 ELSE IF n < 100000000 THEN 8 ELSE 9

\* the length of a formatted cell: 14 for '[missing data]', and otherwise the two
\* characters before the amount, its digits and its thousands separators
FormattedLen(c) ==
    IF isnull(c) THEN 14
    ELSE LET d == NDigits(c[1] \div 1000) IN 2 + d + ((d - 1) \div 3)

Longest(a, b) == IF a >= b THEN a ELSE b

\* the hover text has been made
HoverMade == script = "income" /\ pc \in {"render", "done"}

\* the length of the hover text of row, every cell being w(cell) characters wide:
\* name, '<br>', the 38 characters of the header line, and four lines of a
\* 17-character label, the mean, a space and the median, '<br>' between them
HoverLen(row, w(_)) ==
    Len(row.PCON22NM) + 4 + 38
    + (17 + w(row.v["Total income: Mean"]) + 1 + w(row.v["Total income: Median"])) + 4
    + (17 + w(row.v["Total tax: Mean"]) + 1 + w(row.v["Total tax: Median"])) + 4
    + (17 + w(row.v["Self-employment income: Mean"]) + 1
          + w(row.v["Self-employment income: Median"])) + 4
    + (17 + w(row.v["Employment income: Mean"]) + 1 + w(row.v["Employment income: Median"]))

\* C10 as stated: for every record and every one of the eight fields, whether the
\* value is present or absent, pad_string returns exactly MAX_LEN = 8 characters, so
\* that every line of every hover text has its columns at the same offsets.
C10_ExactlyMaxLen ==
    HoverMade =>
        \A k \in 1..Len(merged_iht) :
            /\ \A f \in hovertext_fields : Len(Padded(merged_iht[k], f)) = 8
            /\ Len(hovertext[k]) = HoverLen(merged_iht[k], LAMBDA c : 8)

\* C10 as amended: pad_string pads to MAX_LEN = 8 characters and never shortens: a
\* formatted field of at most 8 characters (a present amount below 100,000) is
\* returned as exactly 8 characters, and a longer one is returned as it is, 14
\* characters for '[missing data]' and 9 or more for an amount of 100,000 or more,
\* so that the Median column starts at the same offset only on the lines whose Mean
\* field is a present amount below 100,000.
C10_PaddedUpToMaxLen ==
    HoverMade =>
        \A k \in 1..Len(merged_iht) :
            /\ \A f \in hovertext_fields :
                  LET c == merged_iht[k].v[f]
                      padded == Padded(merged_iht[k], f)
                  IN  /\ Len(padded) = Longest(8, FormattedLen(c))
                      /\ Len(padded) = 8 <=> notna(c) /\ c[1] \div 1000 < 100000
                      /\ isnull(c) => padded = MISSING_DATA
            /\ Len(hovertext[k]) =
                   HoverLen(merged_iht[k], LAMBDA c : Longest(8, FormattedLen(c)))

\* a hover text with a field padded from 5 to 8 characters, a field of exactly 8,
\* an amount too long for 8 and a missing field
C10_Witness ==
    /\ HoverMade
    /\ \E k \in 1..Len(merged_iht) : \E f \in hovertext_fields :
          merged_iht[k].v[f] = Dec(999, 0) /\ Len(Padded(merged_iht[k], f)) = 8
    /\ \E k \in 1..Len(merged_iht) :
          /\ merged_iht[k].v["Total income: Mean"] = Dec(25000, 700)
          /\ Len(Padded(merged_iht[k], "Total income: Mean")) = 8
    /\ \E k \in 1..Len(merged_iht) :
          /\ merged_iht[k].v["Total income: Mean"] = Dec(150000, 0)
          /\ Len(Padded(merged_iht[k], "Total income: Mean")) = 9
    /\ \E k \in 1..Len(merged_iht) :
          /\ isnull(merged_iht[k].v["Total income: Mean"])
          /\ Len(Padded(merged_iht[k], "Total income: Mean")) = 14

====
